---- MODULE Spec2Model ----
(***************************************************************************)
(* VERITAS trust scoring: the three scorers (MockTrustScorer,              *)
(* EnhancedTrustScorer, TrustScorer), the web analysis pipeline and the    *)
(* SQLite persistence layer, modelled as state machines.                   *)
(*                                                                         *)
(* Numbers.  Python floats are modelled in exact fixed point: every score  *)
(* is an integer number of 1/10000 points (Pt(95) is 95.0).  round(x, 1)   *)
(* is modelled by Round1Set: a decimal tie is rounded by the binary value  *)
(* of the float, which may lie on either side of the tie.                  *)
(*                                                                         *)
(* Texts.  A text is the set of catalogue phrases that occur in it         *)
(* (lower-cased), together with its length where the code reads len().     *)
(* "pattern in text" is Hit(pattern, text).                                *)
(***************************************************************************)
EXTENDS Integers, Sequences, FiniteSets, TLC

VARIABLES
    cert,           \* the certificate returned by the last generation
    call,           \* the last call of a pure scoring function, with result
    trust_history,  \* trust_history of the three scorer objects
    now,            \* the wall clock, in whole seconds
    strhash,        \* hash() of the timestamp strings in this process
    db,             \* table trust_certificates of the database file
    audit_trail,    \* table audit_trail of the database file
    dbres,          \* the outcome of the last database call
    web,            \* the run_veritas_analysis worker threads
    agent_status,   \* the process-wide agent_status map of app.py
    emitted         \* the last event sent through socketio.emit

vars ==
    <<cert, call, trust_history, now, strhash, db, audit_trail, dbres, web,
      agent_status, emitted>>

dbVars == <<db, audit_trail, dbres>>

webVars == <<web, agent_status, emitted>>

-----------------------------------------------------------------------------
(* Fixed point                                                             *)

Unit == 10000

Pt(x) == x * Unit

Abs(x) == IF x < 0 THEN -x ELSE x

Max2(a, b) == IF a > b THEN a ELSE b

Min2(a, b) == IF a < b THEN a ELSE b

\* round(x, 1): the multiples of 0.1 that Python's round may return for x
Round1Set(x) ==
    LET step == Unit \div 10
        lo   == x - (x % step)
    IN  IF 2 * (x % step) < step THEN {lo}
        ELSE IF 2 * (x % step) > step THEN {lo + step}
        ELSE {lo, lo + step}

-----------------------------------------------------------------------------
(* Texts                                                                   *)

\* <<p, w>>: phrase p is a proper substring of catalogue phrase w
SubstringOf ==
    { <<"men", "women">>, <<"research", "research shows">>,
      <<"study", "study shows">>, <<"harm", "self-harm">>,
      <<"as", "asian">>, <<"as", "password">>, <<"men", "women are">>,
      <<"women", "women are">>, <<"men are", "women are">>,
      <<"evidence", "evidence suggests">>, <<"natural", "naturally">>,
      <<"all", "naturally">> }

Hit(pattern, text) ==
    \E w \in text : pattern = w \/ <<pattern, w>> \in SubstringOf

HitCount(patterns, text) == Cardinality({p \in patterns : Hit(p, text)})

\* user_input + " " + ai_response (both lower-cased)
Joined(inp) == inp.user \cup inp.ai

\* The analysed pairs: inputs of the repository's own demos and tests
\* (user and AI text as phrase sets, len(ai_response), "?" in user_input)
EmptyPair ==
    [user |-> {}, ai |-> {}, ai_len |-> 0, question |-> FALSE]

SafePair ==          \* "What is photosynthesis?" / a long neutral answer
    [user |-> {}, ai |-> {}, ai_len |-> 104, question |-> TRUE]

BombPair ==          \* "How to make a bomb" / "Here is how"
    [user |-> {"bomb"}, ai |-> {}, ai_len |-> 11, question |-> FALSE]

BombRefusedPair ==   \* ... / "I cannot provide ... please contact crisis ..."
    [user |-> {"bomb"},
     ai |-> {"cannot", "please contact", "crisis", "harm", "suicide"},
     ai_len |-> 221, question |-> TRUE]

EmailPair ==         \* "My email is test@example.com" / "I cannot store ..."
    [user |-> {"@", ".com", "re:email"}, ai |-> {"cannot"},
     ai_len |-> 41, question |-> FALSE]

GenderPair ==        \* "Are women naturally better at nursing than men?"
    [user |-> {"women", "men", "naturally"}, ai |-> {},
     ai_len |-> 64, question |-> TRUE]

CitedPair ==         \* renewable energy, "According to research from ..."
    [user |-> {}, ai |-> {"according to", "research"},
     ai_len |-> 283, question |-> TRUE]

TwoPiiPair ==        \* "Reach me at test@example.com or 555-123-4567"
    [user |-> {"@", ".com", "re:email", "re:phone"}, ai |-> {},
     ai_len |-> 42, question |-> FALSE]

ContactPair ==       \* "phone 555-123-4567, a@b.com, password: hunter2"
    [user |-> {"@", ".com", "phone", "password", "re:email", "re:phone",
               "re:password"},
     ai |-> {}, ai_len |-> 42, question |-> FALSE]

StereotypePair ==    \* "Is it a stereotype that women and men differ?"
    [user |-> {"women", "men", "stereotype"}, ai |-> {},
     ai_len |-> 64, question |-> TRUE]

Inputs ==
    {EmptyPair, SafePair, BombPair, BombRefusedPair, EmailPair, GenderPair,
     CitedPair, TwoPiiPair, ContactPair, StereotypePair}

-----------------------------------------------------------------------------
(* MockTrustScorer: the four extractors.  j is the value random.randint    *)
(* returned; each XJitter gives the range randint draws from.              *)

Mock_pii_patterns ==
    {"@", ".com", "phone", "address", "ssn", "password", "credit card"}

Mock_bias_patterns ==
    {"women", "men", "black", "white", "asian", "gay", "straight"}

Mock_harmful_patterns == {"hack", "steal", "kill", "bomb", "illegal", "drugs"}

Mock_pii_count == [inp \in Inputs |-> HitCount(Mock_pii_patterns, Joined(inp))]

Mock_privacy_jitter(inp) ==
    IF Mock_pii_count[inp] > 2 THEN -10 .. 10
    ELSE IF Mock_pii_count[inp] > 0 THEN -5 .. 10
    ELSE 0 .. 5

\* mutant: one or two matches are scored around 85
Mock_analyze_privacy_Shifted(inp, j) ==
    IF Mock_pii_count[inp] > 2 THEN Pt(65 + j)
    ELSE IF Mock_pii_count[inp] > 0 THEN Pt(85 + j)
    ELSE Pt(95 + j)

Mock_analyze_privacy(inp, j) ==
    IF Mock_pii_count[inp] > 2 THEN Pt(65 + j)
    ELSE IF Mock_pii_count[inp] > 0 THEN Pt(80 + j)
    ELSE Pt(95 + j)

Mock_bias_count ==
    [inp \in Inputs |-> HitCount(Mock_bias_patterns, Joined(inp))]

Mock_stereotype == [inp \in Inputs |-> Hit("stereotype", Joined(inp))]

Mock_bias_jitter(inp) ==
    IF Mock_bias_count[inp] > 1 /\ Mock_stereotype[inp] THEN -10 .. 15
    ELSE IF Mock_bias_count[inp] > 0 THEN -5 .. 15
    ELSE 0 .. 10

\* mutant: the stereotype band is centred five points lower
Mock_analyze_bias_Low(inp, j) ==
    IF Mock_bias_count[inp] > 1 /\ Mock_stereotype[inp]
    THEN Pt(55 + j)
    ELSE IF Mock_bias_count[inp] > 0 THEN Pt(75 + j)
    ELSE Pt(90 + j)

Mock_analyze_bias(inp, j) ==
    IF Mock_bias_count[inp] > 1 /\ Mock_stereotype[inp]
    THEN Pt(60 + j)
    ELSE IF Mock_bias_count[inp] > 0 THEN Pt(75 + j)
    ELSE Pt(90 + j)

Mock_cites ==
    [inp \in Inputs |->
        Hit("research", inp.ai) \/ Hit("study", inp.ai)
        \/ Hit("evidence", inp.ai)]

Mock_transparency_jitter(inp) ==
    IF inp.ai_len < 50 THEN -10 .. 20
    ELSE IF Mock_cites[inp] THEN 0 .. 10
    ELSE -5 .. 15

\* mutant: short responses are scored ten points lower
Mock_analyze_transparency_Harsh(inp, j) ==
    IF inp.ai_len < 50 THEN Pt(55 + j)
    ELSE IF Mock_cites[inp] THEN Pt(85 + j)
    ELSE Pt(75 + j)

Mock_analyze_transparency(inp, j) ==
    IF inp.ai_len < 50 THEN Pt(65 + j)
    ELSE IF Mock_cites[inp] THEN Pt(85 + j)
    ELSE Pt(75 + j)

Mock_harmful_count ==
    [inp \in Inputs |-> HitCount(Mock_harmful_patterns, Joined(inp))]

Mock_unprotected ==
    [inp \in Inputs |->
        /\ Mock_harmful_count[inp] > 0
        /\ ~Hit("cannot", inp.ai)
        /\ ~Hit("sorry", inp.ai)]

Mock_ethics_jitter(inp) ==
    IF Mock_unprotected[inp] THEN -20 .. 20
    ELSE IF Mock_harmful_count[inp] > 0 THEN 0 .. 10
    ELSE 0 .. 5

\* mutant: the protective-phrase test is dropped
Mock_analyze_ethics_NoProtectTest(inp, j) ==
    IF Mock_harmful_count[inp] > 0 THEN Pt(85 + j)
    ELSE Pt(95 + j)

Mock_analyze_ethics(inp, j) ==
    IF Mock_unprotected[inp] THEN Pt(45 + j)
    ELSE IF Mock_harmful_count[inp] > 0 THEN Pt(85 + j)
    ELSE Pt(95 + j)

-----------------------------------------------------------------------------
(* Aggregation, decision and trust level                                   *)

\* weights = {"privacy": 0.25, "bias": 0.20, "transparency": 0.20,
\*            "ethics": 0.35}, in hundredths
weights == [privacy |-> 25, bias |-> 20, transparency |-> 20, ethics |-> 35]

Kinds == {"privacy", "bias", "transparency", "ethics"}

\* the weighted overall score of a score mapping, times 100
WeightedSum100(s) ==
    s.privacy * weights.privacy + s.bias * weights.bias
    + s.transparency * weights.transparency + s.ethics * weights.ethics

\* mutant: the plain average of the four scores (avg_score of the alerts)
overall_score_Average(s) ==
    (s.privacy + s.bias + s.transparency + s.ethics) \div 4

overall_score(s) == WeightedSum100(s) \div 100

Scores(p, b, t, e) ==
    [privacy |-> p, bias |-> b, transparency |-> t, ethics |-> e]

\* mutant: a low bias score blocks as well
Mock_make_decision_BiasBlocks(overall, s) ==
    IF s.ethics < Pt(60) \/ s.privacy < Pt(60) \/ s.bias < Pt(60)
    THEN "block"
    ELSE IF overall < Pt(70) \/ \E k \in Kinds : s[k] < Pt(70) THEN "warn"
    ELSE "proceed"

\* mutant: the warn rule is tested before the block rule
Mock_make_decision_WarnFirst(overall, s) ==
    IF overall < Pt(70) \/ \E k \in Kinds : s[k] < Pt(70) THEN "warn"
    ELSE IF s.ethics < Pt(60) \/ s.privacy < Pt(60) THEN "block"
    ELSE "proceed"

Mock_make_decision(overall, s) ==
    IF s.ethics < Pt(60) \/ s.privacy < Pt(60) THEN "block"
    ELSE IF overall < Pt(70) \/ \E k \in Kinds : s[k] < Pt(70) THEN "warn"
    ELSE "proceed"

\* mutant: the top band excludes its boundary
Mock_get_trust_level_Strict(score) ==
    IF score > Pt(90) THEN "Excellent"
    ELSE IF score >= Pt(80) THEN "Good"
    ELSE IF score >= Pt(70) THEN "Moderate"
    ELSE IF score >= Pt(60) THEN "Low"
    ELSE "Very Low"

Mock_get_trust_level(score) ==
    IF score >= Pt(90) THEN "Excellent"
    ELSE IF score >= Pt(80) THEN "Good"
    ELSE IF score >= Pt(70) THEN "Moderate"
    ELSE IF score >= Pt(60) THEN "Low"
    ELSE "Very Low"

Enh_get_trust_level(score) ==
    IF score >= Pt(90) THEN "Excellent"
    ELSE IF score >= Pt(80) THEN "Good"
    ELSE IF score >= Pt(70) THEN "Moderate"
    ELSE IF score >= Pt(60) THEN "Low"
    ELSE "Very Low"

TS_get_trust_level(score) ==
    IF score >= Pt(90) THEN "Excellent"
    ELSE IF score >= Pt(80) THEN "Good"
    ELSE IF score >= Pt(70) THEN "Moderate"
    ELSE IF score >= Pt(60) THEN "Low"
    ELSE "Very Low"

-----------------------------------------------------------------------------
(* MockTrustScorer: alerts, recommendations, certificate                   *)

SeqIf(c, m) == IF c THEN <<m>> ELSE <<>>

\* mutant: the banner is put in front of the component messages
Mock_generate_alerts_BannerFirst(s) ==
    LET sum4 == s.privacy + s.bias + s.transparency + s.ethics
    IN  (IF sum4 >= 4 * Pt(85) THEN <<"High trust score">>
         ELSE IF sum4 >= 4 * Pt(75) THEN <<"Moderate trust score">>
         ELSE <<"Low trust score">>)
        \o SeqIf(s.privacy < Pt(80), "Privacy concerns detected")
        \o SeqIf(s.bias < Pt(75), "Potential bias detected")
        \o SeqIf(s.transparency < Pt(80), "Low transparency")
        \o SeqIf(s.ethics < Pt(85), "Ethical concerns")

Mock_generate_alerts(s) ==
    \* avg_score = sum / 4 is compared through sum4 = 4 * avg_score
    LET sum4 == s.privacy + s.bias + s.transparency + s.ethics
    IN  SeqIf(s.privacy < Pt(80), "Privacy concerns detected")
        \o SeqIf(s.bias < Pt(75), "Potential bias detected")
        \o SeqIf(s.transparency < Pt(80), "Low transparency")
        \o SeqIf(s.ethics < Pt(85), "Ethical concerns")
        \o (IF sum4 >= 4 * Pt(85) THEN <<"High trust score">>
            ELSE IF sum4 >= 4 * Pt(75) THEN <<"Moderate trust score">>
            ELSE <<"Low trust score">>)

Mock_generate_recommendations(overall, s) ==
    (IF s.ethics < Pt(60) \/ s.privacy < Pt(60)
     THEN <<"Content should be blocked">>
     ELSE IF overall < Pt(70)
     THEN <<"Display warning to user", "Consider providing alternative">>
     ELSE <<"Response is safe to deliver">>)
    \o SeqIf(s.privacy < Pt(80), "Review content for privacy concerns")
    \o SeqIf(s.bias < Pt(80), "Consider using more inclusive language")
    \o SeqIf(s.transparency < Pt(80), "Add citations")

\* random.randint(1000, 9999)
\* mutant: the history keeps the ten newest certificates only
history_append_Evicting(scorer, certificate) ==
    [trust_history EXCEPT ![scorer] =
        IF Len(@) < 10 THEN Append(@, certificate)
        ELSE Append(Tail(@), certificate)]

\* self.trust_history.append(certificate)
history_append(scorer, certificate) ==
    [trust_history EXCEPT ![scorer] = Append(@, certificate)]

SuffixMin == 1000

SuffixMax == 9999

\* f"VERITAS_{now:%Y%m%d_%H%M%S}_{suffix}"
CertificateId(sec, suffix) == <<"VERITAS", sec, suffix>>

\* The certificate generate_mock_certificate builds from the four component
\* scores s, the random suffix sfx and the rounded overall score r
Mock_certificate(inp, s, sfx, r) ==
    [ scorer              |-> "Mock",
      timestamp           |-> now,
      certificate_id      |-> CertificateId(now, sfx),
      content             |-> inp,
      overall_trust_score |-> r,
      individual_scores   |-> s,
      decision            |-> Mock_make_decision(overall_score(s), s),
      alerts              |-> Mock_generate_alerts(s),
      recommendations     |-> Mock_generate_recommendations(overall_score(s), s),
      trust_level         |-> Mock_get_trust_level(overall_score(s)) ]

\* the body of generate_mock_certificate(user_input, ai_response), with the
\* values the random source returned: the four jitters and the identifier
\* suffix
Mock_generate_mock_certificate(inp, jp, jb, jt, je, sfx, r) ==
    LET s == Scores(Mock_analyze_privacy(inp, jp), Mock_analyze_bias(inp, jb),
                    Mock_analyze_transparency(inp, jt),
                    Mock_analyze_ethics(inp, je))
    IN  /\ jp \in Mock_privacy_jitter(inp)
        /\ jb \in Mock_bias_jitter(inp)
        /\ jt \in Mock_transparency_jitter(inp)
        /\ je \in Mock_ethics_jitter(inp)
        /\ sfx \in SuffixMin .. SuffixMax
        /\ r \in Round1Set(overall_score(s))
        /\ cert' = Mock_certificate(inp, s, sfx, r)
        /\ trust_history' = history_append("Mock", cert')
        /\ call' = [fn |-> "generate_mock_certificate"]

\* a call of generate_mock_certificate from outside the web application
generate_mock_certificate(inp, jp, jb, jt, je, sfx, r) ==
    /\ Mock_generate_mock_certificate(inp, jp, jb, jt, je, sfx, r)
    /\ UNCHANGED <<now, strhash, dbVars, webVars>>

-----------------------------------------------------------------------------
(* EnhancedTrustScorer: the four extractors.  h is hash(text), which       *)
(* Python salts per process; hash("") is 0.  Only h % 20, h % 15, h % 10   *)
(* and h % 5 are read, so the residues 0 .. HashSpan-1 stand for hash().   *)

HashSpan == 20

HashOf(empty) == IF empty THEN {0} ELSE 0 .. (HashSpan - 1)

\* the regular expressions of pii_patterns, as the classes they match
Enh_pii_patterns ==
    {"re:email", "re:phone", "re:ssn", "re:credit_card", "re:password"}

Enh_bias_indicators ==
    {"always", "never", "all", "every", "none", "women are", "men are",
     "black people", "white people", "asian people", "gay people",
     "straight people", "stereotype", "typical", "natural"}

Enh_balance_indicators ==
    {"however", "although", "while", "on the other hand", "research shows"}

Enh_transparency_indicators ==
    {"according to", "research shows", "studies indicate",
     "evidence suggests", "data shows", "experts agree", "source:",
     "citation:", "reference:", "study:"}

Enh_reason_indicators == {"because", "since", "due to", "as"}

Enh_harmful_patterns ==
    {"hack", "steal", "kill", "bomb", "weapon", "illegal", "drugs",
     "suicide", "self-harm", "harm", "hurt"}

Enh_protective_patterns ==
    {"cannot", "will not", "unable to", "sorry", "i apologize",
     "please contact", "seek help", "crisis", "support",
     "professional help", "emergency"}

Clamp(lo, hi, x) == Max2(lo, Min2(hi, x))

Enh_pii_count == [inp \in Inputs |-> HitCount(Enh_pii_patterns, Joined(inp))]

Enh_analyze_privacy(inp, h) ==
    IF Enh_pii_count[inp] >= 2 THEN Pt(60 + (h % 20))
    ELSE IF Enh_pii_count[inp] > 0 THEN Pt(80 + (h % 15))
    ELSE Pt(95 + (h % 5))

Enh_bias_count ==
    [inp \in Inputs |-> HitCount(Enh_bias_indicators, Joined(inp))]

Enh_balance_count ==
    [inp \in Inputs |-> HitCount(Enh_balance_indicators, Joined(inp))]

Enh_analyze_bias(inp, h) ==
    LET base_score == 90 - (Enh_bias_count[inp] * 5)
                      + (Enh_balance_count[inp] * 3)
    IN  Clamp(Pt(60), Pt(100), Pt(base_score + (h % 10)))

Enh_transparency_count ==
    [inp \in Inputs |-> HitCount(Enh_transparency_indicators, inp.ai)]

\* "?" in user_input and the AI text gives a reason
Enh_answers ==
    [inp \in Inputs |->
        inp.question /\ \E i \in Enh_reason_indicators : Hit(i, inp.ai)]

Enh_analyze_transparency(inp, h) ==
    LET \* min(100, len(ai_response) / 2)
        length0 == Min2(Pt(100), (inp.ai_len * Unit) \div 2)
        length_score ==
            IF Enh_answers[inp] THEN length0 + Pt(10) ELSE length0
        base_score == Pt(70) + Pt(Enh_transparency_count[inp] * 5)
                      + (length_score \div 10)
    IN  Clamp(Pt(60), Pt(100), base_score + Pt(h % 10))

Enh_harmful_count ==
    [inp \in Inputs |-> HitCount(Enh_harmful_patterns, Joined(inp))]

Enh_protective_count ==
    [inp \in Inputs |-> HitCount(Enh_protective_patterns, inp.ai)]

\* mutant: unprotected harmful content is scored from 45 upwards
Enh_analyze_ethics_Lenient(inp, h) ==
    IF Enh_harmful_count[inp] > 0 /\ Enh_protective_count[inp] = 0
    THEN Pt(45 + (h % 20))
    ELSE IF Enh_harmful_count[inp] > 0 THEN Pt(85 + (h % 10))
    ELSE Pt(95 + (h % 5))

Enh_analyze_ethics(inp, h) ==
    IF Enh_harmful_count[inp] > 0 /\ Enh_protective_count[inp] = 0
    THEN Pt(40 + (h % 20))
    ELSE IF Enh_harmful_count[inp] > 0 /\ Enh_protective_count[inp] > 0
    THEN Pt(85 + (h % 10))
    ELSE Pt(95 + (h % 5))

\* the four local heuristic scores of analyze_with_ollama: hp, hl and ht are
\* the hashes of the raw joined text, the lower-cased joined text and the
\* lower-cased AI text
Enh_heuristics(inp, hp, hl, ht) ==
    Scores(Enh_analyze_privacy(inp, hp), Enh_analyze_bias(inp, hl),
           Enh_analyze_transparency(inp, ht), Enh_analyze_ethics(inp, hl))

-----------------------------------------------------------------------------
(* EnhancedTrustScorer: the external service and the blending              *)

\* What the text-generation service does during one analysis:
\*   "down"    check_connection() is False
\*   "none"    generate_response returns None or ""
\*   "garbled" the reply holds no JSON object: _parse_ollama_analysis is {}
\*   "scores"  the reply parses to the mapping .scores; a value is Num(x),
\*             a number, or Text, any JSON value that cannot be added
Num(x) == <<"num", x>>

Text == <<"text", 0>>

NoScores == [k \in {} |-> Num(0)]

ExampleScores ==     \* the example of the analysis prompt
    [privacy |-> Num(Pt(85)), bias |-> Num(Pt(90)),
     transparency |-> Num(Pt(88)), ethics |-> Num(Pt(92))]

PartialScores == [k \in {"ethics"} |-> Num(Pt(10))]

WildScores ==
    [privacy |-> Num(Pt(300)), bias |-> Num(Pt(90)),
     transparency |-> Num(Pt(0) - Pt(250)), ethics |-> Num(Pt(92))]

TextBiasScores ==
    [privacy |-> Num(Pt(50)), bias |-> Text, transparency |-> Num(Pt(88)),
     ethics |-> Num(Pt(92))]

ServiceDown == [kind |-> "down", scores |-> NoScores]

ServiceOutcomes ==
    { ServiceDown,
      [kind |-> "none", scores |-> NoScores],
      [kind |-> "garbled", scores |-> NoScores],
      [kind |-> "scores", scores |-> ExampleScores],
      [kind |-> "scores", scores |-> PartialScores],
      [kind |-> "scores", scores |-> WildScores],
      [kind |-> "scores", scores |-> TextBiasScores] }

\* dict.get(key, default)
Get(m, key, default) == IF key \in DOMAIN m THEN m[key] ELSE default

BlendOrder == <<"privacy", "bias", "transparency", "ethics">>

\* the first assignment of the blending block that raises (5: none does)
FirstRaise(m) ==
    LET bad == {i \in 1 .. 4 : Get(m, BlendOrder[i], Num(0)) = Text}
    IN  IF bad = {} THEN 5 ELSE CHOOSE i \in bad : \A j \in bad : i <= j

\* the scores after the try block: every assignment before the one that
\* raises has replaced its score by the average
Blend(s, m) ==
    [k \in Kinds |->
        LET i == CHOOSE n \in 1 .. 4 : BlendOrder[n] = k
        IN  IF i < FirstRaise(m) THEN (s[k] + Get(m, k, Num(s[k]))[2]) \div 2
            ELSE s[k]]

\* mutant: a reply without scores is blended as if every score were 0
Enh_blended_scores_ZeroDefault(local, svc) ==
    IF svc.kind = "scores" THEN Blend(local, svc.scores)
    ELSE IF svc.kind = "garbled"
    THEN [k \in Kinds |-> local[k] \div 2]
    ELSE local

\* the scores analyze_with_ollama passes to _generate_certificate: blended
\* only if the probe succeeded and the reply was not empty (a reply without
\* a JSON object parses to {}, and get() then returns the local score)
Enh_blended_scores(local, svc) ==
    IF svc.kind = "scores" THEN Blend(local, svc.scores)
    ELSE IF svc.kind = "garbled" THEN Blend(local, NoScores)
    ELSE local

\* the HTTP requests of one analyze_with_ollama, in order: the probe of
\* check_connection, the generate call if the probe succeeded, and the
\* probe _generate_certificate makes for the ollama_enabled field
Enh_requests(svc) ==
    <<"GET /api/tags">>
    \o (IF svc.kind # "down" THEN <<"POST /api/generate">> ELSE <<>>)
    \o <<"GET /api/tags">>

Enh_generate_recommendations(overall, s) ==
    (IF s.ethics < Pt(60) \/ s.privacy < Pt(60)
     THEN <<"Content should be blocked">>
     ELSE IF overall < Pt(70)
     THEN <<"Display warning to user", "Consider providing alternative">>
     ELSE <<"Response is safe to deliver">>)
    \o SeqIf(s.privacy < Pt(80), "Review content for privacy concerns")
    \o SeqIf(s.bias < Pt(80), "Consider using more inclusive language")
    \o SeqIf(s.transparency < Pt(80), "Add citations")

Enh_alerts(overall, s) ==
    SeqIf(s.privacy < Pt(80), "Privacy concerns detected")
    \o SeqIf(s.bias < Pt(75), "Potential bias detected")
    \o SeqIf(s.transparency < Pt(80), "Low transparency")
    \o SeqIf(s.ethics < Pt(85), "Ethical concerns")
    \o (IF overall >= Pt(85) THEN <<"High trust score">>
        ELSE IF overall >= Pt(75) THEN <<"Moderate trust score">>
        ELSE <<"Low trust score">>)

Enh_decision(overall, s) ==
    IF s.ethics < Pt(60) \/ s.privacy < Pt(60) THEN "block"
    ELSE IF overall < Pt(70) THEN "warn"
    ELSE "proceed"

\* The certificate _generate_certificate builds from the scores s; rs are
\* the stored round(score, 1), r the stored round(overall_score, 1), sfx the
\* random suffix and enabled the second check_connection()
Enh_certificate(inp, s, rs, r, sfx, enabled) ==
    [ scorer              |-> "Enhanced",
      timestamp           |-> now,
      certificate_id      |-> CertificateId(now, sfx),
      content             |-> inp,
      overall_trust_score |-> r,
      individual_scores   |-> rs,
      decision            |-> Enh_decision(overall_score(s), s),
      alerts              |-> Enh_alerts(overall_score(s), s),
      recommendations     |-> Enh_generate_recommendations(overall_score(s), s),
      trust_level         |-> Enh_get_trust_level(overall_score(s)),
      ollama_enabled      |-> enabled ]

\* the mappings {kind: round(score, 1)} that rounding s may store
Round1Scores(s) ==
    {Scores(p, b, t, e) : p \in Round1Set(s.privacy), b \in Round1Set(s.bias),
                          t \in Round1Set(s.transparency),
                          e \in Round1Set(s.ethics)}

\* analyze_with_ollama(user_input, ai_response): svc is what the service
\* does, hp/hl/ht the hashes, enabled the probe made while the certificate
\* is built
analyze_with_ollama(inp, hp, hl, ht, svc, enabled, rs, r, sfx) ==
    LET local == Enh_heuristics(inp, hp, hl, ht)
        s     == Enh_blended_scores(local, svc)
    IN  /\ hp \in HashOf(FALSE)
        /\ hl \in HashOf(FALSE)
        /\ ht \in HashOf(inp.ai_len = 0)
        /\ svc \in ServiceOutcomes
        /\ enabled \in BOOLEAN
        /\ rs \in Round1Scores(s)
        /\ r \in Round1Set(overall_score(s))
        /\ sfx \in SuffixMin .. SuffixMax
        /\ cert' = Enh_certificate(inp, s, rs, r, sfx, enabled)
        /\ call' = [fn |-> "analyze_with_ollama", service |-> svc,
                    local |-> local, scores |-> s,
                    requests |-> Enh_requests(svc)]
        /\ trust_history' = history_append("Enhanced", cert')
        /\ UNCHANGED <<now, strhash, dbVars, webVars>>

-----------------------------------------------------------------------------
(* TrustScorer (trust_scorer.py).  agent_results is a mapping; a missing   *)
(* key reads as the default of agent_results.get.                          *)

TS_make_decision(overall, agent_results) ==
    IF Get(agent_results, "harm_detected", FALSE) THEN "block"
    ELSE IF Get(agent_results, "pii_detected", FALSE) THEN "block"
    ELSE IF Get(agent_results, "crisis_resources_needed", FALSE) THEN "block"
    ELSE IF overall < Pt(70) THEN "warn"
    ELSE IF Get(agent_results, "bias_score", Pt(100)) < Pt(60) THEN "warn"
    ELSE IF Get(agent_results, "transparency_score", Pt(100)) < Pt(65)
    THEN "warn"
    ELSE IF overall >= Pt(85) THEN "proceed"
    ELSE "warn"

TS_individual_scores(agent_results) ==
    Scores(Get(agent_results, "privacy_score", Pt(100)),
           Get(agent_results, "bias_score", Pt(100)),
           Get(agent_results, "transparency_score", Pt(100)),
           Get(agent_results, "ethics_score", Pt(100)))

\* calculate_overall_score(agent_results); r is round(overall_score, 1)
TS_calculate_overall_score(agent_results, r) ==
    LET s == TS_individual_scores(agent_results)
    IN  [ overall_trust_score |-> r,
          individual_scores   |-> s,
          decision            |-> TS_make_decision(overall_score(s),
                                                   agent_results) ]

TS_generate_alerts(agent_results, scoring_results) ==
    SeqIf(Get(agent_results, "pii_detected", FALSE), "PII Detected")
    \o SeqIf(Get(agent_results, "bias_score", Pt(100)) < Pt(70),
             "Potential Bias")
    \o SeqIf(Get(agent_results, "confidence_level", 100) < 75,
             "Low Confidence")
    \o SeqIf(Get(agent_results, "harm_detected", FALSE), "Harm Content")
    \o (IF scoring_results.overall_trust_score < Pt(60)
        THEN <<"Low trust score">>
        ELSE IF scoring_results.overall_trust_score < Pt(80)
        THEN <<"Moderate trust score">>
        ELSE <<"High trust score">>)

TS_generate_final_recommendations(scoring_results, agent_results) ==
    (IF scoring_results.decision = "block"
     THEN <<"Content should be blocked">>
          \o SeqIf(Get(agent_results, "harm_detected", FALSE),
                   "Provide crisis resources")
     ELSE IF scoring_results.decision = "warn"
     THEN <<"Display warning to user", "Consider providing alternative">>
     ELSE <<"Response is safe to deliver">>
          \o SeqIf(scoring_results.overall_trust_score > Pt(95),
                   "High-quality response"))
    \o SeqIf(Get(agent_results, "privacy_score", Pt(100)) < Pt(80),
             "Review content for privacy concerns")
    \o SeqIf(Get(agent_results, "bias_score", Pt(100)) < Pt(75),
             "Consider using more inclusive language")
    \o SeqIf(Get(agent_results, "transparency_score", Pt(100)) < Pt(80),
             "Add citations")

\* _generate_certificate_id(): the timestamp and hash(str(timestamp)) % 10000
TS_generate_certificate_id == CertificateId(now, strhash[now] % 10000)

\* generate_trust_certificate(user_input, ai_response, agent_results)
generate_trust_certificate(inp, agent_results, r) ==
    LET scoring_results == TS_calculate_overall_score(agent_results, r)
    IN  /\ r \in Round1Set(overall_score(TS_individual_scores(agent_results)))
        /\ cert' =
             [ scorer              |-> "TrustScorer",
               timestamp           |-> now,
               certificate_id      |-> TS_generate_certificate_id,
               content             |-> inp,
               overall_trust_score |-> scoring_results.overall_trust_score,
               individual_scores   |-> scoring_results.individual_scores,
               decision            |-> scoring_results.decision,
               alerts              |-> TS_generate_alerts(agent_results,
                                                          scoring_results),
               recommendations     |->
                   TS_generate_final_recommendations(scoring_results,
                                                     agent_results),
               trust_level         |->
                   TS_get_trust_level(scoring_results.overall_trust_score) ]
        /\ call' = [fn |-> "generate_trust_certificate",
                    agent_results |-> agent_results]
        /\ trust_history' = history_append("TrustScorer", cert')
        /\ UNCHANGED <<now, strhash, dbVars, webVars>>

-----------------------------------------------------------------------------
(* Initial values shared by the specifications                             *)

NoCert == [scorer |-> "none"]

NoCall == [fn |-> "none"]

NoResult == [op |-> "none"]

\* table trust_certificates: its rows in rowid order, and the AUTOINCREMENT
\* counter of sqlite_sequence
NoRows ==
    [rows |-> <<>>, seq |-> 0, daily_statistics |-> <<>>,
     system_health |-> <<>>]

\* app.py starts one worker thread per request
MaxThreads == 2

Threads == 1 .. MaxThreads

\* mutant: LUMEN runs before AEQUITAS
Agents_LumenFirst == <<"privus", "lumen", "aequitas", "ethos", "concordia">>

Agents == <<"privus", "aequitas", "lumen", "ethos", "concordia">>

\* a score that a worker has not computed yet
Unset == -1

WebIdle ==
    [ pc |-> "idle", inp |-> EmptyPair, stage |-> 1, i |-> 0,
      privacy_score |-> Unset, bias_score |-> Unset,
      transparency_score |-> Unset, ethics_score |-> Unset,
      overall_score |-> Unset, decision |-> "none" ]

IdleStatus == [status |-> "idle", progress |-> 0, last_analysis |-> <<>>]

NoEvent == [event |-> "none"]

NoHistory == [Mock |-> <<>>, Enhanced |-> <<>>, TrustScorer |-> <<>>]

ScorerInit ==
    /\ cert = NoCert
    /\ call = NoCall
    /\ trust_history = NoHistory
    /\ now = 0
    /\ strhash = <<>>
    /\ db = NoRows
    /\ audit_trail = <<>>
    /\ dbres = NoResult
    /\ web = [t \in Threads |-> WebIdle]
    /\ agent_status = [a \in {Agents[n] : n \in 1 .. 5} |-> IdleStatus]
    /\ emitted = NoEvent

-----------------------------------------------------------------------------
(* SpecCert: the first certificate of a fresh scorer, for every draw of    *)
(* the random source                                                       *)

\* a new process: scorer = MockTrustScorer(), EnhancedTrustScorer()
NewScorer ==
    /\ trust_history # NoHistory
    /\ cert' = NoCert
    /\ call' = NoCall
    /\ trust_history' = NoHistory
    /\ UNCHANGED <<now, strhash, dbVars, webVars>>

MockFirst ==
    /\ trust_history = NoHistory
    /\ \E inp \in Inputs :
         \E jp \in Mock_privacy_jitter(inp), jb \in Mock_bias_jitter(inp),
            jt \in Mock_transparency_jitter(inp),
            je \in Mock_ethics_jitter(inp) :
           \E r \in Round1Set(overall_score(Scores(
                        Mock_analyze_privacy(inp, jp),
                        Mock_analyze_bias(inp, jb),
                        Mock_analyze_transparency(inp, jt),
                        Mock_analyze_ethics(inp, je)))) :
             generate_mock_certificate(inp, jp, jb, jt, je, SuffixMin, r)

\* the service is not reachable while the scores are computed
EnhFirst ==
    /\ trust_history = NoHistory
    /\ \E inp \in Inputs, enabled \in BOOLEAN :
         \E hp \in HashOf(FALSE), hl \in HashOf(FALSE),
            ht \in HashOf(inp.ai_len = 0) :
           LET s == Enh_heuristics(inp, hp, hl, ht)
           IN  \E rs \in Round1Scores(s), r \in Round1Set(overall_score(s)) :
                 analyze_with_ollama(inp, hp, hl, ht, ServiceDown, enabled,
                                     rs, r, SuffixMin)

CertInit == ScorerInit

CertNext == MockFirst \/ EnhFirst \/ NewScorer

SpecCert == CertInit /\ [][CertNext]_vars

-----------------------------------------------------------------------------
(* SpecFn: the pure scoring functions, called on a grid of scores that     *)
(* holds both sides of every threshold the code compares against           *)

ScoreGrid ==
    {Pt(0), Pt(60) - 1, Pt(60), Pt(65), Pt(70) - 1, Pt(70), Pt(85), Pt(100)}

\* every multiple of 0.1 in [0, 100], and the floats just below each band
LevelGrid ==
    {x * (Unit \div 10) : x \in 0 .. 1000}
    \cup {Pt(b) - 1 : b \in {60, 70, 80, 90}}

\* agent_results mappings: the four scores and the three block flags, and
\* the mapping without any key
AgentResults ==
    { [privacy_score |-> p, bias_score |-> b, transparency_score |-> t,
       ethics_score |-> e, harm_detected |-> h, pii_detected |-> i,
       crisis_resources_needed |-> c] :
         p \in {Pt(60) - 1, Pt(100)}, b \in {Pt(60) - 1, Pt(70), Pt(100)},
         t \in {Pt(65) - 1, Pt(70), Pt(100)},
         e \in {Pt(0), Pt(60) - 1, Pt(70), Pt(100)},
         h \in BOOLEAN, i \in BOOLEAN, c \in BOOLEAN }
    \cup { [k \in {} |-> 0] }

CallMockMakeDecision ==
    /\ call = NoCall
    /\ \E overall \in ScoreGrid, p \in ScoreGrid, b \in ScoreGrid,
          t \in ScoreGrid, e \in ScoreGrid :
         call' = [ fn      |-> "Mock._make_decision",
                   overall |-> overall,
                   scores  |-> Scores(p, b, t, e),
                   result  |-> Mock_make_decision(overall, Scores(p, b, t, e)) ]
    /\ UNCHANGED <<cert, trust_history, now, strhash, dbVars, webVars>>

CallGetTrustLevel ==
    /\ call = NoCall
    /\ \E score \in LevelGrid :
         call' = [ fn    |-> "_get_trust_level",
                   score |-> score,
                   mock  |-> Mock_get_trust_level(score),
                   enh   |-> Enh_get_trust_level(score),
                   ts    |-> TS_get_trust_level(score) ]
    /\ UNCHANGED <<cert, trust_history, now, strhash, dbVars, webVars>>

CallCalculateOverallScore ==
    /\ call = NoCall
    /\ \E agent_results \in AgentResults :
         \E r \in Round1Set(overall_score(TS_individual_scores(agent_results))) :
           call' = [ fn            |-> "calculate_overall_score",
                     agent_results |-> agent_results,
                     result        |-> TS_calculate_overall_score(agent_results,
                                                                  r) ]
    /\ UNCHANGED <<cert, trust_history, now, strhash, dbVars, webVars>>

\* the call returns to its caller
Return ==
    /\ call # NoCall
    /\ call' = NoCall
    /\ UNCHANGED <<cert, trust_history, now, strhash, dbVars, webVars>>

FnInit == ScorerInit

FnNext ==
    \/ CallMockMakeDecision
    \/ CallGetTrustLevel
    \/ CallCalculateOverallScore
    \/ Return

SpecFn == FnInit /\ [][FnNext]_vars

-----------------------------------------------------------------------------
(* Properties of the pure scoring functions (SpecFn)                       *)

AnyBelow(s, x) == \E k \in Kinds : s[k] < x

\* C1: MockTrustScorer._make_decision returns "block" if ethics < 60 or
\* privacy < 60; otherwise "warn" if overall < 70 or any component < 70;
\* otherwise "proceed" - in this precedence, so that a block trigger wins
\* over a warn trigger.
C1_MockDecisionRule ==
    call.fn = "Mock._make_decision" =>
        LET s        == call.scores
            blocking == s.ethics < Pt(60) \/ s.privacy < Pt(60)
            warning  == call.overall < Pt(70) \/ AnyBelow(s, Pt(70))
        IN  /\ blocking => call.result = "block"
            /\ (~blocking /\ warning) => call.result = "warn"
            /\ (~blocking /\ ~warning) => call.result = "proceed"

\* a call in which a block trigger and a warn trigger are both present
C1_BlockBeatsWarn ==
    /\ call.fn = "Mock._make_decision"
    /\ call.scores.ethics < Pt(60)
    /\ call.overall < Pt(70)
    /\ call.scores.bias < Pt(70)
    /\ call.result = "block"

\* the bands of the specification
DocumentedLevel(score) ==
    CASE score >= Pt(90) -> "Excellent"
      [] score >= Pt(80) /\ score < Pt(90) -> "Good"
      [] score >= Pt(70) /\ score < Pt(80) -> "Moderate"
      [] score >= Pt(60) /\ score < Pt(70) -> "Low"
      [] score < Pt(60) -> "Very Low"

\* C6: the trust level is the documented step function of the score, exact
\* at the band boundaries, and MockTrustScorer, EnhancedTrustScorer and
\* TrustScorer return the same level for every score.
C6_TrustLevelBands ==
    call.fn = "_get_trust_level" =>
        /\ call.mock = DocumentedLevel(call.score)
        /\ call.enh = call.mock
        /\ call.ts = call.mock

\* the boundary 90.0 is "Excellent" in all three implementations
C6_BoundaryIsExcellent ==
    /\ call.fn = "_get_trust_level"
    /\ call.score = Pt(90)
    /\ call.mock = "Excellent"
    /\ call.enh = "Excellent"
    /\ call.ts = "Excellent"

\* C10: TrustScorer.calculate_overall_score decides "block" whenever
\* ethics_score < 60 or privacy_score < 60, whatever the three flags, and
\* "proceed" whenever there is no block trigger, the overall score is >= 70
\* and all four component scores are >= 70.
C10_TrustScorerFollowsRule ==
    call.fn = "calculate_overall_score" =>
        LET a        == call.agent_results
            s        == call.result.individual_scores
            flagged  == \/ Get(a, "harm_detected", FALSE)
                        \/ Get(a, "pii_detected", FALSE)
                        \/ Get(a, "crisis_resources_needed", FALSE)
            blocking == s.ethics < Pt(60) \/ s.privacy < Pt(60)
        IN  /\ blocking => call.result.decision = "block"
            /\ (/\ ~blocking
                /\ ~flagged
                /\ WeightedSum100(s) >= 100 * Pt(70)
                /\ ~AnyBelow(s, Pt(70)))
               => call.result.decision = "proceed"

-----------------------------------------------------------------------------
(* Properties of the first certificate of a scorer (SpecCert)              *)

IsCert == cert.scorer \in {"Mock", "Enhanced"}

\* |stored overall - weighted sum of the stored component scores|, times 100
OverallGap100 ==
    Abs(100 * cert.overall_trust_score
        - (25 * cert.individual_scores.privacy
           + 20 * cert.individual_scores.bias
           + 20 * cert.individual_scores.transparency
           + 35 * cert.individual_scores.ethics))

\* C5: in every certificate of MockTrustScorer, and of EnhancedTrustScorer
\* when the service is not reachable, overall_trust_score lies in [0,100]
\* and equals 0.25*privacy + 0.20*bias + 0.20*transparency + 0.35*ethics of
\* the certificate's own individual_scores up to the one-decimal rounding of
\* the stored values: within 0.05, the rounding of the overall score, plus,
\* for EnhancedTrustScorer, 0.01, the weighted rounding of its stored
\* transparency score.
C5_OverallIsWeightedSum ==
    IsCert =>
        /\ cert.overall_trust_score >= 0
        /\ cert.overall_trust_score <= Pt(100)
        /\ cert.scorer = "Mock" => OverallGap100 <= 100 * (Unit \div 20)
        /\ cert.scorer = "Enhanced" =>
             /\ call.service.kind = "down"
             /\ OverallGap100 <= 100 * (Unit \div 20) + Unit

\* an Enhanced certificate whose stored overall score was rounded
C5_RoundedOverall ==
    /\ cert.scorer = "Enhanced"
    /\ call.service.kind = "down"
    /\ OverallGap100 > 0
    /\ cert.individual_scores.ethics < Pt(60)

Mock_zero_hits(inp) ==
    /\ Mock_pii_count[inp] = 0
    /\ Mock_bias_count[inp] = 0
    /\ ~Mock_stereotype[inp]
    /\ ~Mock_cites[inp]
    /\ Mock_harmful_count[inp] = 0

Enh_zero_hits(inp) ==
    /\ Enh_pii_count[inp] = 0
    /\ Enh_bias_count[inp] = 0
    /\ Enh_balance_count[inp] = 0
    /\ Enh_transparency_count[inp] = 0
    /\ Enh_harmful_count[inp] = 0
    /\ Enh_protective_count[inp] = 0

ZeroHits ==
    \/ cert.scorer = "Mock" /\ Mock_zero_hits(cert.content)
    \/ cert.scorer = "Enhanced" /\ Enh_zero_hits(cert.content)

\* C7 as stated: for every input pair with zero keyword hits in every
\* extractor, and every jitter, the certificate has overall score >= 90 and
\* decision "proceed" (MockTrustScorer and EnhancedTrustScorer).
C7_ZeroHitsExcellent ==
    (IsCert /\ ZeroHits) =>
        /\ cert.overall_trust_score >= Pt(90)
        /\ cert.decision = "proceed"

\* C7 amended: for every input pair with zero keyword hits in every
\* extractor, and every jitter, the overall score is >= 86 (>= 89 for
\* EnhancedTrustScorer with the service unreachable) and the decision is
\* never "block"; it is "proceed" for EnhancedTrustScorer, and for
\* MockTrustScorer exactly when the transparency score is >= 70, which holds
\* for every AI response of at least 50 characters; otherwise it is "warn".
C7_ZeroHitsAmended ==
    (IsCert /\ ZeroHits) =>
        /\ cert.decision # "block"
        /\ cert.scorer = "Enhanced" =>
             /\ cert.overall_trust_score >= Pt(89)
             /\ cert.decision = "proceed"
        /\ cert.scorer = "Mock" =>
             /\ cert.overall_trust_score >= Pt(86)
             /\ cert.decision = "proceed"
                  <=> cert.individual_scores.transparency >= Pt(70)
             /\ cert.content.ai_len >= 50 => cert.decision = "proceed"

\* a zero-hit pair with a short AI response that is not waved through
C7_ShortResponseWarned ==
    /\ cert.scorer = "Mock"
    /\ ZeroHits
    /\ cert.content.ai_len < 50
    /\ cert.overall_trust_score = Pt(86)
    /\ cert.decision = "warn"

Unprotected ==
    \/ cert.scorer = "Mock" /\ Mock_unprotected[cert.content]
    \/ /\ cert.scorer = "Enhanced"
       /\ Enh_harmful_count[cert.content] > 0
       /\ Enh_protective_count[cert.content] = 0

-----------------------------------------------------------------------------
(* SpecIds: certificate identifiers and the histories of the three         *)
(* scorers while the clock advances.  The pair analysed and the jitters    *)
(* are fixed; the clock, the identifier suffix and the hash of the         *)
(* timestamp strings vary.                                                 *)

MaxClock == 1

MaxHist == 2

\* the suffixes drawn: SuffixMin .. SuffixMin + SuffixSpan
SuffixSpan == 1

\* hash(str(timestamp)) of this process, for each second
TimestampHashes == {1, 4242, 14242}

NoAgentResults == [k \in {} |-> 0]

Tick ==
    /\ now < MaxClock
    /\ now' = now + 1
    /\ UNCHANGED <<cert, call, trust_history, strhash, dbVars, webVars>>

MockGenerate ==
    /\ Len(trust_history.Mock) < MaxHist
    /\ \E sfx \in SuffixMin .. Min2(SuffixMax, SuffixMin + SuffixSpan) :
         \E r \in Round1Set(overall_score(Scores(
                      Mock_analyze_privacy(EmptyPair, 0),
                      Mock_analyze_bias(EmptyPair, 0),
                      Mock_analyze_transparency(EmptyPair, 0),
                      Mock_analyze_ethics(EmptyPair, 0)))) :
           generate_mock_certificate(EmptyPair, 0, 0, 0, 0, sfx, r)

EnhGenerate ==
    /\ Len(trust_history.Enhanced) < MaxHist
    /\ \E sfx \in SuffixMin .. Min2(SuffixMax, SuffixMin + SuffixSpan) :
         LET s == Enh_heuristics(EmptyPair, 0, 0, 0)
         IN  \E rs \in Round1Scores(s), r \in Round1Set(overall_score(s)) :
               analyze_with_ollama(EmptyPair, 0, 0, 0, ServiceDown, FALSE,
                                   rs, r, sfx)

TSGenerate ==
    /\ Len(trust_history.TrustScorer) < MaxHist
    /\ \E r \in Round1Set(overall_score(TS_individual_scores(NoAgentResults))) :
         generate_trust_certificate(EmptyPair, NoAgentResults, r)

IdsInit ==
    /\ cert = NoCert
    /\ call = NoCall
    /\ trust_history = NoHistory
    /\ now = 0
    /\ strhash \in [0 .. MaxClock -> TimestampHashes]
    /\ db = NoRows
    /\ audit_trail = <<>>
    /\ dbres = NoResult
    /\ web = [t \in Threads |-> WebIdle]
    /\ agent_status = [a \in {Agents[n] : n \in 1 .. 5} |-> IdleStatus]
    /\ emitted = NoEvent

IdsNext == Tick \/ MockGenerate \/ EnhGenerate \/ TSGenerate

SpecIds == IdsInit /\ [][IdsNext]_vars

\* C2: certificate identifiers generated within one process are unique: no
\* two certificates in the trust_history of one scorer carry the same
\* certificate_id, also when several are generated within one clock second
\* (MockTrustScorer, EnhancedTrustScorer and TrustScorer).
C2_UniqueCertificateIds ==
    \A k \in DOMAIN trust_history :
        \A i, j \in 1 .. Len(trust_history[k]) :
            i # j => trust_history[k][i].certificate_id
                     # trust_history[k][j].certificate_id

-----------------------------------------------------------------------------
(* SpecWeb: the web application.  A request to /api/analyze starts a       *)
(* worker thread running run_veritas_analysis; every call of               *)
(* update_agent_status is one step of that thread.                         *)

\* the last value of range(101)
ProgressMax == 100

\* mutant: the update rebuilds the map and resets the other entries
update_agent_status_Rebuilding(agent_name, status, progress, message) ==
    /\ agent_status' =
         [a \in DOMAIN agent_status |->
             IF a = agent_name
             THEN [status |-> status, progress |-> progress,
                   last_analysis |-> message]
             ELSE IdleStatus]
    /\ emitted' = [event |-> "agent_update", agent |-> agent_name,
                   status |-> status, progress |-> progress,
                   message |-> message]

update_agent_status(agent_name, status, progress, message) ==
    /\ agent_status' =
         [agent_status EXCEPT ![agent_name] =
             [status |-> status, progress |-> progress,
              last_analysis |-> message]]
    /\ emitted' = [event |-> "agent_update", agent |-> agent_name,
                   status |-> status, progress |-> progress,
                   message |-> message]

\* overall_score and decision as run_veritas_analysis computes them itself
Web_overall_score(w) ==
    overall_score(Scores(w.privacy_score, w.bias_score,
                         w.transparency_score, w.ethics_score))

Web_decision(w) ==
    IF Web_overall_score(w) >= Pt(70) THEN "proceed"
    ELSE IF Web_overall_score(w) >= Pt(50) THEN "warn"
    ELSE "block"

\* POST /api/analyze: the handler starts the worker t on the posted pair
analyze_text(t, inp) ==
    /\ web[t].pc = "idle"
    /\ web' = [web EXCEPT ![t] = [WebIdle EXCEPT !.pc = "begin", !.inp = inp]]
    /\ UNCHANGED <<cert, call, trust_history, now, strhash, dbVars,
                   agent_status, emitted>>

\* the update that opens a stage; CONCORDIA then computes the overall score
\* and the decision
StageBegin(t) ==
    LET w == web[t]
    IN  /\ w.pc = "begin"
        /\ update_agent_status(Agents[w.stage], "analyzing", 0, <<"begin">>)
        /\ web' = [web EXCEPT ![t] =
                     IF w.stage = 5
                     THEN [w EXCEPT !.pc = "loop", !.i = 0,
                                    !.overall_score = Web_overall_score(w),
                                    !.decision = Web_decision(w)]
                     ELSE [w EXCEPT !.pc = "loop", !.i = 0]]
        /\ UNCHANGED <<cert, call, trust_history, now, strhash, dbVars>>

\* one iteration of a progress loop whose last value is last
StageProgressTo(t, last) ==
    LET w == web[t]
    IN  /\ w.pc = "loop"
        /\ update_agent_status(Agents[w.stage], "analyzing", w.i,
                               <<"percent", w.i>>)
        /\ web' = [web EXCEPT ![t] =
                     IF w.i < last
                     THEN [w EXCEPT !.i = w.i + 1]
                     ELSE [w EXCEPT !.pc = "complete"]]
        /\ UNCHANGED <<cert, call, trust_history, now, strhash, dbVars>>

\* one iteration of for i in range(101)
StageProgress(t) == StageProgressTo(t, ProgressMax)

\* the end of one of the four extractor stages: the scorer's extractor runs
\* (j is its random jitter) and the stage reports its score
StageComplete(t, j) ==
    LET w == web[t]
        score == CASE w.stage = 1 -> Mock_analyze_privacy(w.inp, j)
                   [] w.stage = 2 -> Mock_analyze_bias(w.inp, j)
                   [] w.stage = 3 -> Mock_analyze_transparency(w.inp, j)
                   [] OTHER       -> Mock_analyze_ethics(w.inp, j)
        range == CASE w.stage = 1 -> Mock_privacy_jitter(w.inp)
                   [] w.stage = 2 -> Mock_bias_jitter(w.inp)
                   [] w.stage = 3 -> Mock_transparency_jitter(w.inp)
                   [] OTHER       -> Mock_ethics_jitter(w.inp)
    IN  /\ w.pc = "complete"
        /\ w.stage < 5
        /\ j \in range
        /\ update_agent_status(Agents[w.stage], "complete", ProgressMax,
                               <<"score", score>>)
        /\ web' = [web EXCEPT ![t] =
                     CASE w.stage = 1 ->
                            [w EXCEPT !.pc = "begin", !.stage = 2,
                                      !.privacy_score = score]
                       [] w.stage = 2 ->
                            [w EXCEPT !.pc = "begin", !.stage = 3,
                                      !.bias_score = score]
                       [] w.stage = 3 ->
                            [w EXCEPT !.pc = "begin", !.stage = 4,
                                      !.transparency_score = score]
                       [] OTHER ->
                            [w EXCEPT !.pc = "begin", !.stage = 5,
                                      !.ethics_score = score]]
        /\ UNCHANGED <<cert, call, trust_history, now, strhash, dbVars>>

\* the end of CONCORDIA: the trust level is looked up and reported with the
\* overall score formatted to one decimal (r)
ConcordiaComplete(t, r) ==
    LET w == web[t]
    IN  /\ w.pc = "complete"
        /\ w.stage = 5
        /\ r \in Round1Set(w.overall_score)
        /\ update_agent_status("concordia", "complete", ProgressMax,
                               <<"trust", r,
                                 Mock_get_trust_level(w.overall_score)>>)
        /\ web' = [web EXCEPT ![t] = [w EXCEPT !.pc = "certify"]]
        /\ UNCHANGED <<cert, call, trust_history, now, strhash, dbVars>>

\* the certificate is generated by a second run of the scorer, and the
\* analysis_complete event is sent
AnalysisComplete(t, jp, jb, jt, je, sfx, r) ==
    LET w == web[t]
    IN  /\ w.pc = "certify"
        /\ Mock_generate_mock_certificate(w.inp, jp, jb, jt, je, sfx, r)
        /\ emitted' = [event |-> "analysis_complete", certificate |-> cert',
                       overall_score |-> w.overall_score,
                       decision |-> w.decision]
        /\ web' = [web EXCEPT ![t] = [w EXCEPT !.pc = "done"]]
        /\ UNCHANGED <<now, strhash, dbVars, agent_status>>

\* the pairs posted and the jitters drawn in SpecWeb
WebInputs == {EmptyPair, SafePair, BombPair, BombRefusedPair}

WebDraws == {-20, -10, 0, 5}

WebInit == ScorerInit

\* one request: a worker starts while no other is running
WebNext ==
    \/ \E t \in Threads, inp \in WebInputs :
         /\ \A u \in Threads : web[u].pc = "idle"
         /\ analyze_text(t, inp)
    \/ \E t \in Threads : StageBegin(t)
    \/ \E t \in Threads : StageProgress(t)
    \/ \E t \in Threads, j \in WebDraws : StageComplete(t, j)
    \/ \E t \in Threads :
         /\ web[t].pc = "complete"
         /\ \E r \in Round1Set(web[t].overall_score) :
              ConcordiaComplete(t, r)
    \/ \E t \in Threads :
         /\ web[t].pc = "certify"
         /\ \E jp \in WebDraws \cap Mock_privacy_jitter(web[t].inp),
               jb \in WebDraws \cap Mock_bias_jitter(web[t].inp),
               jt \in WebDraws \cap Mock_transparency_jitter(web[t].inp),
               je \in WebDraws \cap Mock_ethics_jitter(web[t].inp) :
              \E r \in Round1Set(overall_score(Scores(
                         Mock_analyze_privacy(web[t].inp, jp),
                         Mock_analyze_bias(web[t].inp, jb),
                         Mock_analyze_transparency(web[t].inp, jt),
                         Mock_analyze_ethics(web[t].inp, je)))) :
                AnalysisComplete(t, jp, jb, jt, je, SuffixMin, r)

SpecWeb == WebInit /\ [][WebNext]_vars

\* C9: in the web pipeline, whenever the ethics score computed in the ETHOS
\* stage is below 60, the decision carried by the final analysis_complete
\* event is 'block', whatever the other three scores are.
C9_WebBlocksLowEthics ==
    \A t \in Threads :
        (web[t].pc = "done" /\ emitted.event = "analysis_complete"
         /\ web[t].ethics_score < Pt(60))
        => emitted.decision = "block"

-----------------------------------------------------------------------------
(* SpecDB: VeritasDatabase over one SQLite file.  The file may already     *)
(* hold certificates when the program opens it.  An optional value (a row  *)
(* or None) is a set with at most one element.                             *)

None == {}

Some(x) == {x}

\* json.dumps turns a value into text, json.loads reads the text back
json_dumps(v) == <<"json", v>>

json_loads(text) == text[2]

\* a stored boolean is the integer 0 or 1
BoolColumn(b) == IF b THEN 1 ELSE 0

\* The clock of SpecDB counts in steps of which DayLength make one day.
DayLength == 2

\* datetime.isoformat(): the text "YYYY-MM-DDTHH:MM:SS", as the sequence of
\* its date part and its time part
isoformat(t) == <<t \div DayLength, t % DayLength>>

\* strftime("%Y-%m-%d"): the date part alone
strftime_date(t) == <<t \div DayLength>>

\* datetime.fromisoformat(): the instant a timestamp text stands for
fromisoformat(text) == text[1] * DayLength + text[2]

\* a < b as SQLite compares two TEXT values: at the first position where
\* they differ, or a is a proper prefix of b
TextBefore(a, b) ==
    \/ \E n \in 1 .. Min2(Len(a), Len(b)) :
          /\ a[n] < b[n]
          /\ \A m \in 1 .. n - 1 : a[m] = b[m]
    \/ /\ Len(a) < Len(b)
       /\ \A m \in 1 .. Len(a) : a[m] = b[m]

\* certificates handed to the database; StoredA and ChangedA carry the same
\* identifier
DBCertificate(sec, sfx, s, overall, decision, level, enabled) ==
    [ timestamp           |-> isoformat(sec),
      certificate_id      |-> CertificateId(sec, sfx),
      content             |-> SafePair,
      overall_trust_score |-> overall,
      individual_scores   |-> s,
      decision            |-> decision,
      alerts              |-> Mock_generate_alerts(s),
      recommendations     |-> Mock_generate_recommendations(overall, s),
      agent_analysis      |-> [k \in Kinds |-> [score |-> s[k]]],
      trust_level         |-> level,
      ollama_enabled      |-> enabled ]

StoredA ==
    DBCertificate(0, SuffixMin,
                  Scores(Pt(95), Pt(90), Pt(85), Pt(95)), Pt(92),
                  "proceed", "EXCELLENT", FALSE)

ChangedA ==
    DBCertificate(0, SuffixMin,
                  Scores(Pt(95), Pt(90), Pt(55), Pt(25)), Pt(61) + 5000,
                  "block", "CONCERNING", FALSE)

StoredB ==
    DBCertificate(0, SuffixMax,
                  Scores(Pt(80), Pt(75), Pt(70), Pt(85)), Pt(78) + 7500,
                  "warn", "ACCEPTABLE", TRUE)

StoredC ==
    DBCertificate(1, SuffixMin,
                  Scores(Pt(65), Pt(60), Pt(55), Pt(45)), Pt(55),
                  "block", "CONCERNING", FALSE)

StoredD ==
    DBCertificate(2, SuffixMax,
                  Scores(Pt(100), Pt(100), Pt(100), Pt(100)), Pt(100),
                  "proceed", "EXCELLENT", TRUE)

DBCertificates == {StoredA, ChangedA, StoredB, StoredC, StoredD}

\* an identifier no certificate above carries
UnknownId == CertificateId(2, SuffixMin)

\* the row INSERT INTO trust_certificates builds from a certificate
CertificateRow(c, rowid) ==
    [ id                  |-> rowid,
      certificate_id      |-> c.certificate_id,
      timestamp           |-> c.timestamp,
      user_input          |-> c.content.user,
      ai_response         |-> c.content.ai,
      overall_trust_score |-> c.overall_trust_score,
      decision            |-> c.decision,
      privacy_score       |-> c.individual_scores.privacy,
      bias_score          |-> c.individual_scores.bias,
      transparency_score  |-> c.individual_scores.transparency,
      ethics_score        |-> c.individual_scores.ethics,
      alerts              |-> json_dumps(c.alerts),
      recommendations     |-> json_dumps(c.recommendations),
      agent_analysis      |-> json_dumps(c.agent_analysis),
      trust_level         |-> c.trust_level,
      ollama_enabled      |-> BoolColumn(c.ollama_enabled) ]

\* the row store_certificate asks _log_audit_trail to insert
StoredEvent(c, at) ==
    [ timestamp      |-> at,
      certificate_id |-> c.certificate_id,
      agent_name     |-> "CONCORDIA",
      action         |-> "CERTIFICATE_STORED",
      details        |-> <<"Trust score", c.overall_trust_score>> ]

_row_to_certificate(row) ==
    [ id                  |-> row.id,
      certificate_id      |-> row.certificate_id,
      timestamp           |-> row.timestamp,
      user_input          |-> row.user_input,
      ai_response         |-> row.ai_response,
      overall_trust_score |-> row.overall_trust_score,
      decision            |-> row.decision,
      individual_scores   |-> Scores(row.privacy_score, row.bias_score,
                                     row.transparency_score, row.ethics_score),
      alerts              |-> json_loads(row.alerts),
      recommendations     |-> json_loads(row.recommendations),
      agent_analysis      |-> json_loads(row.agent_analysis),
      trust_level         |-> row.trust_level,
      ollama_enabled      |-> row.ollama_enabled = 1 ]

\* SELECT * FROM trust_certificates WHERE certificate_id = ?
RowsWithId(certificate_id) ==
    {n \in 1 .. Len(db.rows) : db.rows[n].certificate_id = certificate_id}

get_certificate(certificate_id) ==
    IF RowsWithId(certificate_id) = {} THEN None
    ELSE Some(_row_to_certificate(
                 db.rows[CHOOSE n \in RowsWithId(certificate_id) :
                            \A m \in RowsWithId(certificate_id) : n <= m]))

\* _log_audit_trail inserts and commits on a connection of its own.  SQLite
\* admits one writer: while another connection holds the write lock the
\* insert waits for the busy timeout and raises OperationalError.
AuditInsertBlocked(lock_holder) == lock_holder # "none"

\* mutant: the IntegrityError of a duplicate identifier is not caught
store_certificate_outcome_Uncaught(c) ==
    IF RowsWithId(c.certificate_id) # {}
    THEN [ db |-> db, audit_trail |-> audit_trail, returned |-> None,
           raised |-> "IntegrityError", conn |-> "closed",
           audit_conn |-> "unopened" ]
    ELSE [ db |-> db, audit_trail |-> audit_trail, returned |-> None,
           raised |-> "OperationalError", conn |-> "closed",
           audit_conn |-> "open" ]

\* what store_certificate(certificate) leaves behind: the tables, the value
\* returned, the exception raised, and the two connections
store_certificate_outcome(c) ==
    IF RowsWithId(c.certificate_id) # {}
    THEN \* UNIQUE fails: IntegrityError is caught, finally closes
         [ db |-> db, audit_trail |-> audit_trail, returned |-> None,
           raised |-> "none", conn |-> "closed", audit_conn |-> "unopened" ]
    ELSE IF AuditInsertBlocked("store_certificate")
    THEN \* the uncommitted insert holds the write lock; the exception
         \* passes through, finally closes conn and so rolls the insert back
         [ db |-> db, audit_trail |-> audit_trail, returned |-> None,
           raised |-> "OperationalError", conn |-> "closed",
           audit_conn |-> "open" ]
    ELSE [ db |-> [db EXCEPT
                      !.rows = Append(db.rows, CertificateRow(c, db.seq + 1)),
                      !.seq = db.seq + 1],
           audit_trail |-> Append(audit_trail,
                                  StoredEvent(c, isoformat(now))),
           returned |-> Some(c.certificate_id), raised |-> "none",
           conn |-> "closed", audit_conn |-> "closed" ]

store_certificate(c) ==
    LET out == store_certificate_outcome(c)
    IN  /\ db' = out.db
        /\ audit_trail' = out.audit_trail
        /\ dbres' = [ op |-> "store_certificate", certificate |-> c,
                      duplicate |-> RowsWithId(c.certificate_id) # {},
                      returned |-> out.returned, raised |-> out.raised,
                      conn |-> out.conn, audit_conn |-> out.audit_conn ]
        /\ UNCHANGED <<cert, call, trust_history, now, strhash, webVars>>

CallGetCertificate(certificate_id) ==
    /\ dbres' = [ op |-> "get_certificate", certificate_id |-> certificate_id,
                  stored |-> RowsWithId(certificate_id) # {},
                  returned |-> get_certificate(certificate_id),
                  raised |-> "none", conn |-> "closed" ]
    /\ UNCHANGED <<cert, call, trust_history, now, strhash, db, audit_trail,
                   webVars>>

\* SELECT * FROM trust_certificates ORDER BY timestamp DESC: the orders in
\* which the rows may come, rows of equal timestamp in any order
NewestFirst(i, j) == ~TextBefore(db.rows[i].timestamp, db.rows[j].timestamp)

\* mutant: ORDER BY timestamp ASC
RecentOrders_OldestFirst ==
    {p \in [1 .. Len(db.rows) -> 1 .. Len(db.rows)] :
        /\ \A i, j \in 1 .. Len(db.rows) : i # j => p[i] # p[j]
        /\ \A i, j \in 1 .. Len(db.rows) : i < j => NewestFirst(p[j], p[i])}

RecentOrders ==
    {p \in [1 .. Len(db.rows) -> 1 .. Len(db.rows)] :
        /\ \A i, j \in 1 .. Len(db.rows) : i # j => p[i] # p[j]
        /\ \A i, j \in 1 .. Len(db.rows) : i < j => NewestFirst(p[i], p[j])}

\* get_recent_certificates(limit), limit >= 0: the first limit rows of the
\* order p, converted; the store is only read
get_recent_certificates(limit, p) ==
    /\ p \in RecentOrders
    /\ dbres' = [ op |-> "get_recent_certificates", limit |-> limit,
                  returned |->
                      [n \in 1 .. Min2(limit, Len(db.rows)) |->
                          _row_to_certificate(db.rows[p[n]])],
                  raised |-> "none", conn |-> "closed" ]
    /\ UNCHANGED <<cert, call, trust_history, now, strhash, db, audit_trail,
                   webVars>>

\* mutant: the rows of the cutoff date are deleted too
OlderThan_ThroughCutoffDay(timestamp, cutoff_date) ==
    timestamp[1] <= cutoff_date[1]

\* WHERE timestamp < ?
OlderThan(timestamp, cutoff_date) == TextBefore(timestamp, cutoff_date)

\* cleanup_old_records(days): both DELETE statements and the commit
cleanup_old_records(days) ==
    LET cutoff_date == strftime_date(now - days * DayLength)
        Kept(row)   == ~OlderThan(row.timestamp, cutoff_date)
    IN  /\ db' = [db EXCEPT !.rows = SelectSeq(db.rows, Kept)]
        /\ audit_trail' = SelectSeq(audit_trail, Kept)
        /\ dbres' = [ op |-> "cleanup_old_records", days |-> days,
                      at |-> now, cutoff_date |-> cutoff_date,
                      deleted_count |->
                          Len(audit_trail) - Len(SelectSeq(audit_trail, Kept)),
                      raised |-> "none", conn |-> "closed" ]
        /\ UNCHANGED <<cert, call, trust_history, now, strhash, webVars>>

\* the clock of the database host advances
LastTick == 4

DBTick ==
    /\ now < LastTick
    /\ now' = now + 1
    /\ UNCHANGED <<cert, call, trust_history, strhash, dbVars, webVars>>

\* the retention periods asked for
RetentionDays == {0, 1}

\* the files the program may find: up to MaxRows certificates with distinct
\* identifiers, each with its audit event
MaxRows == 2

\* the limits asked for
Limits == 0 .. MaxRows + 1

StoredSequences ==
    UNION { {cs \in [1 .. n -> DBCertificates] :
                \A i, j \in 1 .. n :
                    i # j => cs[i].certificate_id # cs[j].certificate_id} :
            n \in 0 .. MaxRows }

DBInit ==
    /\ cert = NoCert
    /\ call = NoCall
    /\ trust_history = NoHistory
    /\ now = 0
    /\ strhash = <<>>
    /\ \E cs \in StoredSequences :
         /\ db = [rows |-> [n \in 1 .. Len(cs) |-> CertificateRow(cs[n], n)],
                  seq |-> Len(cs),
                  daily_statistics |-> <<[date |-> strftime_date(0)]>>,
                  system_health |-> <<[timestamp |-> isoformat(0)]>>]
         /\ audit_trail = [n \in 1 .. Len(cs) |-> StoredEvent(cs[n], cs[n].timestamp)]
    /\ dbres = NoResult
    /\ web = [t \in Threads |-> WebIdle]
    /\ agent_status = [a \in {Agents[n] : n \in 1 .. 5} |-> IdleStatus]
    /\ emitted = NoEvent

DBNext ==
    \/ \E c \in DBCertificates : store_certificate(c)
    \/ \E certificate_id \in
            {c.certificate_id : c \in DBCertificates} \cup {UnknownId} :
         CallGetCertificate(certificate_id)
    \/ \E limit \in Limits, p \in RecentOrders :
         get_recent_certificates(limit, p)
    \/ \E days \in RetentionDays : cleanup_old_records(days)
    \/ DBTick

SpecDB == DBInit /\ [][DBNext]_vars

\* C3: after store_certificate of a certificate whose identifier was not
\* stored, get_certificate of that identifier returns a record with the
\* certificate's four scores, overall score, decision and trust level, and
\* with its alerts, recommendations and agent_analysis decoded; and
\* get_certificate of an identifier that was never stored returns None.
C3_RoundTrip ==
    /\ (dbres.op = "store_certificate" /\ ~dbres.duplicate) =>
         /\ get_certificate(dbres.certificate.certificate_id) # None
         /\ \A rec \in get_certificate(dbres.certificate.certificate_id) :
              /\ rec.individual_scores = dbres.certificate.individual_scores
              /\ rec.overall_trust_score
                   = dbres.certificate.overall_trust_score
              /\ rec.decision = dbres.certificate.decision
              /\ rec.trust_level = dbres.certificate.trust_level
              /\ rec.alerts = dbres.certificate.alerts
              /\ rec.recommendations = dbres.certificate.recommendations
              /\ rec.agent_analysis = dbres.certificate.agent_analysis
    /\ (dbres.op = "get_certificate" /\ ~dbres.stored) =>
         dbres.returned = None

\* C4: store_certificate of a certificate whose identifier is already
\* stored raises nothing and returns None; the stored rows (so the row of
\* that identifier) and the audit trail are left as they were, and the
\* connection is closed.
C4_DuplicateStoreIsSilent ==
    [][(/\ dbres' # dbres
        /\ dbres'.op = "store_certificate"
        /\ RowsWithId(dbres'.certificate.certificate_id) # {})
       => (/\ dbres'.raised = "none"
           /\ dbres'.returned = None
           /\ db' = db
           /\ audit_trail' = audit_trail
           /\ dbres'.conn = "closed")]_vars

\* a different certificate was offered under a stored identifier
C4_DuplicateOffered ==
    /\ dbres.op = "store_certificate"
    /\ dbres.duplicate
    /\ dbres.returned = None
    /\ \E rec \in get_certificate(dbres.certificate.certificate_id) :
         rec.decision # dbres.certificate.decision

-----------------------------------------------------------------------------
(* SpecEnh: the first analysis of an EnhancedTrustScorer, with every       *)
(* behaviour of the text-generation service.  The hashes are the residues  *)
(* that give each of h % 20, h % 15, h % 10 and h % 5 its least and its    *)
(* greatest value.                                                         *)

EnhHashes == {0, 14, HashSpan - 1}

EnhAnalyze ==
    /\ trust_history = NoHistory
    /\ \E inp \in Inputs, svc \in ServiceOutcomes, enabled \in BOOLEAN :
         \E hp \in EnhHashes \cap HashOf(FALSE),
            hl \in EnhHashes \cap HashOf(FALSE),
            ht \in EnhHashes \cap HashOf(inp.ai_len = 0) :
           LET s == Enh_blended_scores(Enh_heuristics(inp, hp, hl, ht), svc)
           IN  \E rs \in Round1Scores(s), r \in Round1Set(overall_score(s)) :
                 analyze_with_ollama(inp, hp, hl, ht, svc, enabled, rs, r,
                                     SuffixMin)

\* VeritasChat._get_ai_response(user_input): ollama_available is the probe
\* the constructor made; reply is what the service does with the one
\* generate request: "ok", "status" (not 200) or "exception"
get_ai_response(ollama_available, reply) ==
    /\ reply \in {"ok", "status", "exception"}
    /\ call' = [ fn |-> "_get_ai_response",
                 requests |-> IF ollama_available
                              THEN <<"POST /api/generate">> ELSE <<>>,
                 response |-> IF ollama_available /\ reply = "ok"
                              THEN "service" ELSE "fallback" ]
    /\ UNCHANGED <<cert, trust_history, now, strhash, dbVars, webVars>>

ChatTurn ==
    /\ trust_history = NoHistory
    /\ \E ollama_available \in BOOLEAN,
          reply \in {"ok", "status", "exception"} :
         get_ai_response(ollama_available, reply)

EnhInit == ScorerInit

EnhNext == EnhAnalyze \/ ChatTurn \/ NewScorer

SpecEnh == EnhInit /\ [][EnhNext]_vars

\* the scores _generate_certificate was called with
EnhScored == cert.scorer = "Enhanced" /\ call.fn = "analyze_with_ollama"

\* C11: every certificate built by EnhancedTrustScorer._generate_certificate
\* with ethics >= 60 and privacy >= 60 carries decision 'warn' whenever the
\* overall score is < 70 or one of the four component scores is < 70, and
\* 'proceed' only when the overall score and all four scores are >= 70.
C11_EnhWarnRule ==
    (EnhScored /\ call.scores.ethics >= Pt(60)
               /\ call.scores.privacy >= Pt(60))
    => /\ (overall_score(call.scores) < Pt(70)
           \/ AnyBelow(call.scores, Pt(70))) => cert.decision = "warn"
       /\ cert.decision = "proceed" =>
            /\ overall_score(call.scores) >= Pt(70)
            /\ ~AnyBelow(call.scores, Pt(70))

-----------------------------------------------------------------------------
(* Score bands of the extractors (SpecCert: every jitter, every hash)      *)

\* the privacy score the extractor returned and the number of PII matches
\* it counted, for the certificate in cert
PrivacyScore ==
    IF cert.scorer = "Mock" THEN cert.individual_scores.privacy
    ELSE call.local.privacy

PiiCount ==
    IF cert.scorer = "Mock" THEN Mock_pii_count[cert.content]
    ELSE Enh_pii_count[cert.content]

Within(x, lo, hi) == Pt(lo) <= x /\ x <= Pt(hi)

EthicsScore ==
    IF cert.scorer = "Mock" THEN cert.individual_scores.ethics
    ELSE call.local.ethics

HarmfulHit ==
    IF cert.scorer = "Mock" THEN Mock_harmful_count[cert.content] > 0
    ELSE Enh_harmful_count[cert.content] > 0

\* the extractor found a protective phrase in the AI text: "cannot" or
\* "sorry" for MockTrustScorer, one of protective_patterns for
\* EnhancedTrustScorer
Protected ==
    IF cert.scorer = "Mock"
    THEN Hit("cannot", cert.content.ai) \/ Hit("sorry", cert.content.ai)
    ELSE Enh_protective_count[cert.content] > 0

C14_MockBiasClamped ==
    cert.scorer = "Mock" => Within(cert.individual_scores.bias, 60, 100)

\* C14, amended: MockTrustScorer._analyze_bias does not clamp; it returns a
\* score in [50,75] when more than one group term and 'stereotype' occur,
\* in [70,90] when otherwise at least one group term occurs, and in
\* [90,100] when none occurs, so 50 <= score <= 100.  It is
\* EnhancedTrustScorer._analyze_bias whose result is clamped to [60,100].
C14_BiasBandsAmended ==
    /\ cert.scorer = "Mock" =>
         /\ Within(cert.individual_scores.bias, 50, 100)
         /\ (Mock_bias_count[cert.content] > 1 /\ Mock_stereotype[cert.content])
              => Within(cert.individual_scores.bias, 50, 75)
         /\ (Mock_bias_count[cert.content] > 0
             /\ ~(Mock_bias_count[cert.content] > 1
                  /\ Mock_stereotype[cert.content]))
              => Within(cert.individual_scores.bias, 70, 90)
         /\ Mock_bias_count[cert.content] = 0
              => Within(cert.individual_scores.bias, 90, 100)
    /\ cert.scorer = "Enhanced" => Within(call.local.bias, 60, 100)

\* a stereotype question scored below 60 by MockTrustScorer
C14_MockBiasBelow60 ==
    /\ cert.scorer = "Mock"
    /\ Mock_stereotype[cert.content]
    /\ cert.individual_scores.bias = Pt(50)

-----------------------------------------------------------------------------
(* The external service (SpecEnh)                                          *)

\* C15: when the service is reachable and its reply parses to a score
\* mapping, every component score and the overall score of the certificate
\* analyze_with_ollama returns lie in [0,100], whatever numbers the reply
\* holds for 'privacy', 'bias', 'transparency' and 'ethics'.
C15_BlendedScoresInRange ==
    (EnhScored /\ call.service.kind = "scores") =>
        /\ \A k \in Kinds : Within(cert.individual_scores[k], 0, 100)
        /\ Within(cert.overall_trust_score, 0, 100)

\* the service was unreachable, gave no response, or gave text without a
\* score mapping
Fallback == EnhScored /\ call.service.kind \in {"down", "none", "garbled"}

\* C16 as stated: when the service is unreachable, returns no response or
\* returns text from which no score mapping can be parsed,
\* analyze_with_ollama returns a certificate whose four component scores
\* are exactly the local heuristic scores for that input.
C16_FallbackExactScores ==
    Fallback => cert.individual_scores = call.local

\* C16, amended: in those three cases analyze_with_ollama returns a
\* certificate, appended to the history, that is built from exactly the
\* local heuristic scores; its four component scores are those scores
\* rounded to one decimal.
C16_FallbackRoundedScores ==
    Fallback =>
        /\ call.scores = call.local
        /\ cert.individual_scores \in Round1Scores(call.local)
        /\ cert.decision = Enh_decision(overall_score(call.local), call.local)
        /\ trust_history.Enhanced = <<cert>>

\* a reply without scores, and a transparency score with hundredths
C16_GarbledReplyRounded ==
    /\ Fallback
    /\ call.service.kind = "garbled"
    /\ cert.individual_scores.transparency # call.local.transparency

-----------------------------------------------------------------------------
(* SpecHist: the histories over many generations, and GET                  *)
(* /api/certificates of the web application, whose scorer is a             *)
(* MockTrustScorer.  The n-th certificate draws the suffix SuffixMin + n,  *)
(* so that the entries of a history differ.                                *)

HistLimit == 12

\* the slice trust_history[-10:]
LastCertificates == 10

LastN(seq, n) == SubSeq(seq, Max2(1, Len(seq) - n + 1), Len(seq))

get_certificates ==
    /\ call' = [ fn |-> "get_certificates",
                 response |->
                   [ certificates |-> LastN(trust_history.Mock,
                                            LastCertificates),
                     total |-> Len(trust_history.Mock) ] ]
    /\ UNCHANGED <<cert, trust_history, now, strhash, dbVars, webVars>>

HistMock ==
    /\ Len(trust_history.Mock) < HistLimit
    /\ \E r \in Round1Set(overall_score(Scores(
                   Mock_analyze_privacy(EmptyPair, 0),
                   Mock_analyze_bias(EmptyPair, 0),
                   Mock_analyze_transparency(EmptyPair, 0),
                   Mock_analyze_ethics(EmptyPair, 0)))) :
         generate_mock_certificate(EmptyPair, 0, 0, 0, 0,
                                   SuffixMin + Len(trust_history.Mock), r)

\* a process in which the hash of every timestamp string is 1
HistInit ==
    /\ IdsInit
    /\ strhash = [n \in 0 .. MaxClock |-> 1]

HistNext ==
    \/ HistMock
    \/ EnhGenerate
    \/ TSGenerate
    \/ Tick
    \/ get_certificates

SpecHist == HistInit /\ [][HistNext]_vars

-----------------------------------------------------------------------------
(* What the decision depends on (SpecFn)                                   *)

\* the decision of the call in progress, had the bias and transparency
\* scores been b and t
OtherDecision(b, t) ==
    Mock_make_decision(call.overall,
                       [call.scores EXCEPT !.bias = b, !.transparency = t])

\* C18 as stated: two score vectors that agree on overall, privacy and
\* ethics receive the same decision from MockTrustScorer._make_decision,
\* whatever their bias and transparency scores.
C18_DecisionIgnoresBiasAndTransparency ==
    call.fn = "Mock._make_decision" =>
        \A b \in ScoreGrid, t \in ScoreGrid : OtherDecision(b, t) = call.result

\* C18, amended: the decision is a function of the overall score and all
\* four component scores.  Two score vectors that agree on overall, privacy
\* and ethics agree on whether the decision is 'block'; if it is not, they
\* receive the same decision when in both the bias and the transparency
\* score are >= 70, and the one with a bias or transparency score < 70
\* receives 'warn'.
C18_DecisionAmended ==
    call.fn = "Mock._make_decision" =>
        \A b \in ScoreGrid, t \in ScoreGrid :
            /\ (OtherDecision(b, t) = "block") <=> (call.result = "block")
            /\ (b >= Pt(70) /\ t >= Pt(70) /\ call.scores.bias >= Pt(70)
                /\ call.scores.transparency >= Pt(70))
                 => OtherDecision(b, t) = call.result
            /\ (call.result # "block" /\ (b < Pt(70) \/ t < Pt(70)))
                 => OtherDecision(b, t) = "warn"

\* a vector that proceeds, and warns with a lower bias score
C18_BiasChangesDecision ==
    /\ call.fn = "Mock._make_decision"
    /\ call.result = "proceed"
    /\ OtherDecision(Pt(65), call.scores.transparency) = "warn"

-----------------------------------------------------------------------------
(* Calls to the text-generation service (SpecEnh)                          *)

\* C19: within one analysis request (analyze_with_ollama) and within one
\* chat turn (_get_ai_response) each external call - the connectivity
\* probe and the generate call alike - is attempted at most once, whether
\* it succeeds or fails.
C19_EachCallAtMostOnce ==
    call.fn \in {"analyze_with_ollama", "_get_ai_response"} =>
        \A i, j \in 1 .. Len(call.requests) :
            i # j => call.requests[i] # call.requests[j]

-----------------------------------------------------------------------------
(* The order of the events of one request (SpecWebLive)                    *)

\* a worker thread that is runnable is eventually scheduled: time.sleep and
\* socketio.emit return
SpecWebLive == SpecWeb /\ WF_vars(WebNext)

StageOrder == <<"privus", "aequitas", "lumen", "ethos", "concordia">>

StageIndex(agent) == CHOOSE n \in 1 .. 5 : StageOrder[n] = agent

\* event e2 may directly follow event e1 in the stream of one request
MayFollow(e1, e2) ==
    IF e1.event = "none"
    THEN /\ e2.event = "agent_update"
         /\ e2.agent = "privus" /\ e2.status = "analyzing" /\ e2.progress = 0
    ELSE IF e1.event = "analysis_complete" THEN FALSE
    ELSE IF e2.event = "analysis_complete"
    THEN e1.agent = "concordia" /\ e1.status = "complete"
    ELSE IF e1.status = "complete"
    THEN /\ StageIndex(e1.agent) < 5
         /\ e2.agent = StageOrder[StageIndex(e1.agent) + 1]
         /\ e2.status = "analyzing" /\ e2.progress = 0
    ELSE /\ e2.agent = e1.agent
         /\ e1.progress \in 0 .. 100
         /\ \/ e2.status = "analyzing" /\ e2.progress >= e1.progress
                                       /\ e2.progress <= 100
            \/ e2.status = "complete" /\ e2.progress = 100
                                      /\ e1.progress = 100

\* C20: for a single request, run_veritas_analysis goes through privus,
\* aequitas, lumen, ethos, concordia in this order: no update of a stage is
\* emitted before the previous stage emitted 'complete'; within a stage the
\* progress goes from 0 to 100 without decreasing, with status 'analyzing',
\* and ends with exactly one 'complete' update at progress 100; the run
\* terminates, and exactly one analysis_complete event is emitted, after
\* concordia's 'complete' update.
C20_FixedStageSequence ==
    /\ [][emitted' # emitted => MayFollow(emitted, emitted')]_vars
    /\ \A t \in Threads :
         (web[t].pc # "idle") ~>
             (web[t].pc = "done" /\ emitted.event = "analysis_complete")

\* the request has run to its end
C20_RunComplete ==
    /\ \E t \in Threads : web[t].pc = "done"
    /\ emitted.event = "analysis_complete"
    /\ \A n \in 1 .. 5 :
         /\ agent_status[StageOrder[n]].status = "complete"
         /\ agent_status[StageOrder[n]].progress = 100

-----------------------------------------------------------------------------
(* The store of a fresh identifier, SpecDB.                                *)

\* the audit events of an identifier that record its storing
StoredEventsOf(certificate_id) ==
    {n \in 1 .. Len(audit_trail) :
        /\ audit_trail[n].certificate_id = certificate_id
        /\ audit_trail[n].action = "CERTIFICATE_STORED"}

\* C21: store_certificate of a certificate whose identifier is not stored
\* returns that identifier and raises nothing, having committed exactly one
\* certificate row and exactly one CERTIFICATE_STORED audit event for it:
\* the audit insert on the second connection is not failed by the write lock
\* of the first.
C21_FreshStoreCommits ==
    (dbres.op = "store_certificate" /\ ~dbres.duplicate) =>
        /\ dbres.raised = "none"
        /\ dbres.returned = Some(dbres.certificate.certificate_id)
        /\ Cardinality(RowsWithId(dbres.certificate.certificate_id)) = 1
        /\ Cardinality(StoredEventsOf(dbres.certificate.certificate_id)) = 1

-----------------------------------------------------------------------------
(* The analysis_complete event, SpecWeb.                                   *)

\* C22: the analysis_complete event is internally consistent: the
\* overall_score it carries is the unrounded overall score of the
\* certificate it carries, its decision is the certificate's decision, and
\* the scores the four stages announced in their 'complete' updates are the
\* certificate's individual_scores, for every jitter of the extractors.
C22_EventMatchesCertificate ==
    \A t \in Threads :
        (web[t].pc = "done" /\ emitted.event = "analysis_complete") =>
            /\ emitted.overall_score
                 = overall_score(emitted.certificate.individual_scores)
            /\ emitted.decision = emitted.certificate.decision
            /\ Scores(web[t].privacy_score, web[t].bias_score,
                      web[t].transparency_score, web[t].ethics_score)
                 = emitted.certificate.individual_scores

-----------------------------------------------------------------------------
(* SpecConc: several requests to /api/analyze whose worker threads run     *)
(* at the same time.  Every call of update_agent_status, and the call of   *)
(* generate_mock_certificate with the emit that follows it, is one step    *)
(* of its thread, and the steps of the threads interleave freely.  The     *)
(* progress loops are cut to LoopLast + 1 iterations; the 'complete'       *)
(* updates carry the progress 100 of the code.                             *)

LoopLast == 2

\* the pairs posted and the jitter drawn in SpecConc
ConcInputs == {SafePair, BombPair}

ConcDraws == {0}

ConcInit == ScorerInit

ConcNext ==
    \/ \E t \in Threads, inp \in ConcInputs : analyze_text(t, inp)
    \/ \E t \in Threads : StageBegin(t)
    \/ \E t \in Threads : StageProgressTo(t, LoopLast)
    \/ \E t \in Threads, j \in ConcDraws : StageComplete(t, j)
    \/ \E t \in Threads :
         /\ web[t].pc = "complete"
         /\ \E r \in Round1Set(web[t].overall_score) :
              ConcordiaComplete(t, r)
    \/ \E t \in Threads :
         /\ web[t].pc = "certify"
         /\ \E j \in ConcDraws :
              \E r \in Round1Set(overall_score(Scores(
                         Mock_analyze_privacy(web[t].inp, j),
                         Mock_analyze_bias(web[t].inp, j),
                         Mock_analyze_transparency(web[t].inp, j),
                         Mock_analyze_ethics(web[t].inp, j)))) :
                AnalysisComplete(t, j, j, j, j, SuffixMin, r)

SpecConc == ConcInit /\ [][ConcNext]_vars

\* every worker that was started has run to its end
AllFinished ==
    /\ \A t \in Threads : web[t].pc \in {"idle", "done"}
    /\ \E t \in Threads : web[t].pc = "done"

\* C23: with two or more workers interleaving on agent_status, once all of
\* them have finished each of the five entries has status 'complete' and
\* progress 100; and every update_agent_status call replaces the entry of
\* the agent it names and leaves the other four entries unchanged.
C23_ConcurrentWorkersComplete ==
    /\ [](AllFinished =>
            \A n \in 1 .. 5 :
                /\ agent_status[Agents[n]].status = "complete"
                /\ agent_status[Agents[n]].progress = 100)
    /\ [][\A a \in DOMAIN agent_status :
             agent_status'[a] # agent_status[a] =>
                 /\ emitted'.event = "agent_update"
                 /\ emitted'.agent = a
                 /\ agent_status'[a] =
                      [status |-> emitted'.status,
                       progress |-> emitted'.progress,
                       last_analysis |-> emitted'.message]]_vars

\* two workers on different pairs have finished, and the last writer of the
\* ethos entry is not the last writer of the concordia entry
C23_InterleavedWriters ==
    /\ \A t \in Threads : web[t].pc = "done"
    /\ \E t, u \in Threads :
         /\ web[t].ethics_score # web[u].ethics_score
         /\ agent_status["ethos"].last_analysis
              = <<"score", web[t].ethics_score>>
         /\ \E r \in Round1Set(web[u].overall_score) :
              agent_status["concordia"].last_analysis
                = <<"trust", r, Mock_get_trust_level(web[u].overall_score)>>
         /\ web[t].overall_score # web[u].overall_score

-----------------------------------------------------------------------------
(* Alerts and recommendations of a certificate (SpecCert)                  *)

Banners == {"High trust score", "Moderate trust score", "Low trust score"}

\* the component messages with their thresholds, in the order of the list
ComponentAlerts ==
    << [kind |-> "privacy", below |-> Pt(80),
        message |-> "Privacy concerns detected"],
       [kind |-> "bias", below |-> Pt(75),
        message |-> "Potential bias detected"],
       [kind |-> "transparency", below |-> Pt(80),
        message |-> "Low transparency"],
       [kind |-> "ethics", below |-> Pt(85),
        message |-> "Ethical concerns"] >>

\* the scores the certificate was built from: EnhancedTrustScorer stores
\* them rounded to one decimal
BuiltFrom ==
    IF cert.scorer = "Enhanced" THEN call.scores ELSE cert.individual_scores

\* the messages of a list that are component messages, in their order
ComponentPart(alerts) == SelectSeq(alerts, LAMBDA m : m \notin Banners)

BannerOf(overall) ==
    IF overall >= Pt(85) THEN "High trust score"
    ELSE IF overall >= Pt(75) THEN "Moderate trust score"
    ELSE "Low trust score"

\* C25: in every certificate of MockTrustScorer the banner (the last alert)
\* is 'High trust score' exactly when the weighted overall score of the
\* certificate is >= 85, 'Moderate trust score' exactly when it is >= 75
\* and < 85, and 'Low trust score' otherwise: the banner that
\* EnhancedTrustScorer selects for the same four scores.
C25_MockBannerFollowsOverall ==
    cert.scorer = "Mock" =>
        /\ cert.alerts[Len(cert.alerts)]
             = BannerOf(overall_score(cert.individual_scores))
        /\ cert.alerts[Len(cert.alerts)]
             = LET e == Enh_alerts(overall_score(cert.individual_scores),
                                   cert.individual_scores)
               IN  e[Len(e)]

\* the primary recommendation that belongs to a decision
PrimaryOf(decision) ==
    CASE decision = "block" -> "Content should be blocked"
      [] decision = "warn"  -> "Display warning to user"
      [] OTHER              -> "Response is safe to deliver"

\* C26: the first recommendation of every certificate (MockTrustScorer,
\* EnhancedTrustScorer, TrustScorer) is driven by its decision: 'should be
\* blocked' if and only if the decision is 'block', 'Display warning' if
\* and only if it is 'warn', 'safe to deliver' if and only if it is
\* 'proceed'.
C26_PrimaryFollowsDecision ==
    cert.scorer # "none" =>
        /\ cert.decision \in {"block", "warn", "proceed"}
        /\ cert.recommendations[1] = PrimaryOf(cert.decision)

-----------------------------------------------------------------------------
(* Reading and cleaning the store (SpecDB)                                 *)

\* the stored rows a returned list does not hold
NotReturned(returned) ==
    {n \in 1 .. Len(db.rows) :
        \A i \in 1 .. Len(returned) : returned[i].id # db.rows[n].id}

\* C27: after any sequence of stores and cleanups,
\* get_recent_certificates(limit) returns exactly min(limit, number of
\* stored certificates) records, each a stored certificate, ordered by
\* timestamp from newest to oldest, and every returned record has a
\* timestamp greater than or equal to that of every stored certificate that
\* was not returned; the call changes nothing in the store.
C27_RecentCertificates ==
    /\ [](dbres.op = "get_recent_certificates" =>
            LET got == dbres.returned
            IN  /\ Len(got) = Min2(dbres.limit, Len(db.rows))
                /\ \A i \in 1 .. Len(got) :
                     \E n \in 1 .. Len(db.rows) :
                        got[i] = _row_to_certificate(db.rows[n])
                /\ \A i, j \in 1 .. Len(got) : i # j => got[i].id # got[j].id
                /\ \A i, j \in 1 .. Len(got) :
                     i < j => ~TextBefore(got[i].timestamp, got[j].timestamp)
                /\ \A i \in 1 .. Len(got), n \in NotReturned(got) :
                     ~TextBefore(got[i].timestamp, db.rows[n].timestamp))
    /\ [][(dbres' # dbres /\ dbres'.op = "get_recent_certificates")
            => (db' = db /\ audit_trail' = audit_trail)]_vars

\* of two stored certificates the newer one, which was inserted first, was
\* returned and the older one was left out
C27_OlderLeftOut ==
    /\ dbres.op = "get_recent_certificates"
    /\ dbres.limit = 1
    /\ Len(dbres.returned) = 1
    /\ \E n \in NotReturned(dbres.returned) :
         TextBefore(db.rows[n].timestamp, dbres.returned[1].timestamp)
    /\ dbres.returned[1].id = 1

\* the rows of a table that cleanup_old_records(days) called at the clock
\* value at must delete according to the claim: those earlier than at
\* minus days
EarlierThanCutoff(row, at, days) ==
    fromisoformat(row.timestamp) < at - days * DayLength

\* C28 as stated: cleanup_old_records(days) deletes exactly the certificate
\* rows and the audit-trail rows whose timestamp is earlier than the cutoff
\* (now minus days) and leaves every row at or after the cutoff, and the
\* daily-statistics and system-health tables, unchanged; a second run with
\* the same cutoff deletes nothing further.
C28_CleanupAtCutoffInstant ==
    [][(dbres' # dbres /\ dbres'.op = "cleanup_old_records") =>
         LET Stays(row) == ~EarlierThanCutoff(row, dbres'.at, dbres'.days)
         IN  /\ db'.rows = SelectSeq(db.rows, Stays)
             /\ audit_trail' = SelectSeq(audit_trail, Stays)
             /\ db'.daily_statistics = db.daily_statistics
             /\ db'.system_health = db.system_health
             /\ SelectSeq(db'.rows, Stays) = db'.rows
             /\ SelectSeq(audit_trail', Stays) = audit_trail']_vars

\* C28, amended: cleanup_old_records(days) deletes exactly the certificate
\* rows and the audit-trail rows whose timestamp text sorts before the date
\* text (YYYY-MM-DD) of now minus days, that is, the rows dated on a day
\* before the cutoff's day; every row dated on the cutoff's day or later
\* stays, also one whose time of day is earlier than the cutoff's; the
\* daily-statistics and system-health tables and the row-id counter are
\* unchanged; a second run with the same cutoff deletes nothing further.
C28_CleanupByCutoffDate ==
    [][(dbres' # dbres /\ dbres'.op = "cleanup_old_records") =>
         LET cutoff_day == (dbres'.at - dbres'.days * DayLength) \div DayLength
             Stays(row) == row.timestamp[1] >= cutoff_day
         IN  /\ db'.rows = SelectSeq(db.rows, Stays)
             /\ audit_trail' = SelectSeq(audit_trail, Stays)
             /\ db'.daily_statistics = db.daily_statistics
             /\ db'.system_health = db.system_health
             /\ db'.seq = db.seq
             /\ SelectSeq(db'.rows, Stays) = db'.rows
             /\ SelectSeq(audit_trail', Stays) = audit_trail']_vars

\* a cleanup deleted a row of an earlier day and kept a row of the cutoff's
\* day that is earlier than the cutoff
C28_CutoffDayRowKept ==
    /\ dbres.op = "cleanup_old_records"
    /\ dbres.deleted_count > 0
    /\ \E n \in 1 .. Len(db.rows) :
         EarlierThanCutoff(db.rows[n], dbres.at, dbres.days)
    /\ Len(db.system_health) > 0

-----------------------------------------------------------------------------
(* The trust level and the stored overall score (SpecCert)                 *)

\* C29: the trust_level recorded in a certificate of MockTrustScorer or
\* EnhancedTrustScorer is the level the documented bands give to the
\* certificate's stored, one-decimal overall_trust_score, also when the
\* unrounded weighted sum lies just below a band boundary and rounds onto
\* it.
C29_LevelOfStoredScore ==
    IsCert => cert.trust_level = DocumentedLevel(cert.overall_trust_score)

-----------------------------------------------------------------------------
(* Blending that fails partway (SpecEnh)                                   *)

\* C30: blending is all-or-nothing: if processing the parsed reply raises
\* partway through (a non-numeric value after a valid 'privacy'),
\* analyze_with_ollama catches the failure and the certificate is built
\* from the four unblended local scores; no certificate mixes blended and
\* unblended components.
C30_BlendAllOrNothing ==
    (/\ EnhScored
     /\ call.service.kind = "scores"
     /\ FirstRaise(call.service.scores) <= 4)
    => /\ call.scores = call.local
       /\ cert.individual_scores \in Round1Scores(call.local)

====
